---- MODULE Spec2Model ----
(***************************************************************************)
(* The frame pipeline of frontend/components/ServerInferenceCamera.tsx:    *)
(* the Live Detection loop (runLiveDetection), Capture Photo               *)
(* (processImage), the request/response halves of sendFrameToServer, the   *)
(* overlay canvas, and the buttons and visibility handler that start and   *)
(* stop the loop.  One TLA+ step is one run-to-completion block of the     *)
(* JavaScript event loop: a click handler up to its first await, or the    *)
(* continuation that runs when a fetch settles or an animation frame       *)
(* fires.                                                                  *)
(***************************************************************************)
EXTENDS Integers, FiniteSets, Sequences, TLC

\* ------------------------------------------------------------------ bounds
MaxLoops == 2      \* runLiveDetection invocations alive at the same time
MaxFrames == 2     \* requests sent in one run (cap on frameCounter)
MaxTime == 1       \* largest value of the clock Date.now()
LatFrames == 1
BacklogFrames == 6 \* requests sent in one run of the backlog specification

\* --------------------------------------------------------------- constants
N == 5             \* documented capacity of the frame queue
NumModels == 2     \* models Change Model cycles through

NoTs == 0 - 1      \* "no result": the overlay shows no detections

Loop == 1..MaxLoops
Outcomes == {"ok", "nodet", "neterr", "http", "badjson"}
Bodies == {"ok", "nodet"}    \* outcomes that carry a parsed response body
FacingModes == {"environment", "user"}

VARIABLES
    liveDetection,   \* liveDetection.current
    frameCounter,    \* frameCounter.current
    SSR,             \* SSR state: TRUE while document.hidden (nothing mounted)
    modelName,       \* props.modelName, as an index into the model list
    facingMode,      \* facingMode state
    networkLatency,  \* networkLatency state
    serverLatency,   \* serverLatency state
    inferenceTime,   \* inferenceTime state
    overlay,         \* content of the mounted overlay canvas (videoCanvasRef)
    loops,           \* each runLiveDetection invocation: where it is suspended
    pending,         \* fetch calls that have not settled
    now,             \* Date.now()
    backendDown,     \* the server is unreachable for every request from now on
    rendered,        \* capture_ts of the result last drawn on the overlay
    before,          \* per request in flight: the overlay before its capture
    queue,           \* FrameQueue.queue (report.md)
    dropped_frames,  \* FrameQueue.dropped_frames
    offers,          \* the frames passed to add_frame so far, in order
    raised,          \* the last add_frame call raised an exception
    bench,           \* one run of bench/run_bench.sh
    start,           \* one run of start.sh
    stats            \* the statistics section of run_bench.sh

\* The component's own state and its environment.
pipe == <<liveDetection, frameCounter, SSR, modelName, facingMode,
          networkLatency, serverLatency, inferenceTime, overlay, loops,
          pending, now, backendDown, rendered>>

\* The frame queue of report.md and the two shell scripts.
others == <<queue, dropped_frames, offers, raised, bench, start, stats>>

vars == <<liveDetection, frameCounter, SSR, modelName, facingMode,
          networkLatency, serverLatency, inferenceTime, overlay, loops,
          pending, now, backendDown, rendered, before, queue,
          dropped_frames, offers, raised, bench, start, stats>>

\* A step of the component leaves the queue and the scripts alone.
Apart == UNCHANGED <<before, queue, dropped_frames, offers, raised, bench,
                    start, stats>>

\* ------------------------------------------------------------ the canvas
\* Canvas content: whether a captured video frame is painted on it, and the
\* capture_ts of the detections painted on it (NoTs: none).
Blank == [video |-> FALSE, det |-> NoTs]

\* capture(): drawImage paints the opaque video frame over the whole canvas.
capture == [video |-> TRUE, det |-> NoTs]

\* drawDetections(ctx, detections): clearRect, then the boxes of the result.
drawDetections(ts) == [video |-> FALSE, det |-> ts]

\* ---------------------------------------------------------- the requests
\* The payload with the capture time used as frame_id.
PayloadTimeId(kind, owner, model) ==
    [id |-> now, ts |-> now, kind |-> kind, owner |-> owner,
     model |-> model,
     detached |-> FALSE, stopped |-> FALSE, lost |-> FALSE]

\* The synchronous half of sendFrameToServer: the payload of the fetch.
\* detached, stopped and lost are bookkeeping of the environment: the canvas
\* the caller holds was unmounted; the pipeline was stopped while the
\* request was in flight; the server never answers it.
Payload(kind, owner, model) ==
    [id |-> frameCounter, ts |-> now, kind |-> kind, owner |-> owner,
     model |-> model,
     detached |-> FALSE, stopped |-> FALSE, lost |-> FALSE]

\* The body of a 2xx response (the server echoes capture_ts); detections is
\* missing from it when out = "nodet".
ServerResponse(r, out, recv, inf) ==
    [tag |-> "result", capture_ts |-> r.ts, recv_ts |-> recv,
     inference_ts |-> inf, hasDetections |-> (out = "ok")]

\* Latencies with the operands of the network latency exchanged.
LatenciesSwapped(result, t) ==
    <<result.capture_ts - result.recv_ts,
      result.inference_ts - result.recv_ts,
      t - result.recv_ts>>

\* Lines 132-136: networkLat, serverLat, totalLat.
Latencies(result, t) ==
    <<result.recv_ts - result.capture_ts,
      result.inference_ts - result.recv_ts,
      t - result.capture_ts>>

Null == [tag |-> "null", capture_ts |-> NoTs, recv_ts |-> NoTs,
         inference_ts |-> NoTs, hasDetections |-> FALSE]
Thrown == [Null EXCEPT !.tag = "throw"]

\* sendFrameToServer without its catch block: a failure propagates.
sendFrameToServerNoCatch(r, out, recv, inf) ==
    IF out \in Bodies THEN ServerResponse(r, out, recv, inf)
    ELSE Thrown

\* What a call of sendFrameToServer gives its caller once the fetch has
\* settled with outcome out: the parsed body, or null from the catch block
\* (fetch rejected, status not ok, body not JSON).
sendFrameToServer(r, out, recv, inf) ==
    IF out \in Bodies THEN ServerResponse(r, out, recv, inf)
    ELSE Null

\* runServerInference: if (result && result.detections) drawDetections(...)
Draws(result) == result.tag = "result" /\ result.hasDetections

\* Lines 138-140: setNetworkLatency, setServerLatency, setInferenceTime.
LatencyState(result, old) ==
    IF result.tag = "result"
    THEN <<Latencies(result, now)[1], Latencies(result, now)[2],
           Latencies(result, now)[2]>>
    ELSE old

\* ------------------------------------------------------------------- loops
Idle == [pc |-> "idle", model |-> 0]

FreeLoops == {l \in Loop : loops[l].pc = "idle"}
FreeLoop == CHOOSE l \in FreeLoops : \A k \in FreeLoops : l <= k

\* Loops that will capture again unless the flag is cleared first.
Running == {l \in Loop : loops[l].pc \in {"infer", "raf"}}

\* Every request in flight when the pipeline is stopped is a cancelled call.
Stop(P) == {[r EXCEPT !.stopped = TRUE] : r \in P}

\* --------------------------------------------- FrameQueue (report.md 116)
MaxOffers == 6     \* add_frame calls in one run
Frames == 1..(N + 1)

\* The attributes __init__ assigns on self (lines 118-119).  The parameter
\* max_size is passed to deque and stored nowhere.
Attributes == {"queue", "dropped_frames"}

\* deque(maxlen = m).append(x): a full deque discards its leftmost item.
append(q, x, m) == IF Len(q) >= m THEN Append(Tail(q), x) ELSE Append(q, x)

\* add_frame without any bound on the queue.
add_frameUnbounded(frame) ==
    /\ queue' = Append(queue, frame)
    /\ raised' = FALSE
    /\ UNCHANGED dropped_frames

\* add_frame(frame), lines 121-125.  Reading self.max_size raises
\* AttributeError when the attribute does not exist, before the queue is
\* touched.
add_frame(frame) ==
    IF "max_size" \notin Attributes
    THEN /\ raised' = TRUE
         /\ UNCHANGED <<queue, dropped_frames>>
    ELSE LET full == Len(queue) >= N
         IN /\ queue' = append(IF full THEN Tail(queue) ELSE queue, frame, N)
            /\ dropped_frames' = dropped_frames + (IF full THEN 1 ELSE 0)
            /\ raised' = FALSE

\* A caller offers one more frame.
Offer ==
    /\ Len(offers) < MaxOffers
    /\ \E frame \in Frames :
          /\ offers' = Append(offers, frame)
          /\ add_frame(frame)

\* ------------------------------------------------- bench/run_bench.sh
MaxArgs == 4       \* words on the command line of run_bench.sh

\* A command-line word, split where the case patterns split it: the part a
\* pattern names and the part "${arg#*=}" keeps.
BenchWords ==
    {<<"--duration=", "30">>, <<"--duration=", "0">>,
     <<"--mode=", "server">>, <<"--mode=", "gpu">>,
     <<"--output=", "my_metrics.json">>, <<"--help", "">>,
     <<"--duration", "">>, <<"30", "">>, <<"--mode", "">>, <<"server", "">>}

SeqsUpTo(S, n) == UNION {[1..k -> S] : k \in 0..n}

\* Lines 9-12, and the services the script will find.
BenchStart(args, frontend, backend) ==
    [pc |-> "parse", args |-> args, DURATION |-> "30", MODE |-> "wasm",
     OUTPUT_FILE |-> "metrics.json", HELP |-> FALSE, code |-> NoTs,
     ran |-> FALSE, written |-> "", frontend |-> frontend,
     backend |-> backend]

\* One pass of the case statement (lines 16-37) over the word arg.
BenchCase(st, arg) ==
    CASE arg[1] = "--duration=" -> [st EXCEPT !.DURATION = arg[2]]
      [] arg[1] = "--mode=" -> [st EXCEPT !.MODE = arg[2]]
      [] arg[1] = "--output=" -> [st EXCEPT !.OUTPUT_FILE = arg[2]]
      [] arg[1] \in {"--help", "-h"} -> [st EXCEPT !.HELP = TRUE]
      [] OTHER -> [st EXCEPT !.HELP = TRUE]

RECURSIVE BenchParse(_, _)
BenchParse(st, args) ==
    IF args = <<>> THEN st
    ELSE BenchParse(BenchCase(st, Head(args)), Tail(args))

Exit(st, code) == [st EXCEPT !.pc = "exit", !.code = code]

\* [[ "$DURATION" =~ ^[0-9]+$ ]] and its value, for the words in use.
IsNumber(w) == w \in {"30", "0"}
Value(w) == IF w = "30" THEN 30 ELSE 0

\* for arg in "$@" ... done (lines 15-38).
BenchArguments ==
    /\ bench.pc = "parse"
    /\ bench' = [BenchParse(bench, bench.args) EXCEPT !.pc = "help"]

\* Lines 41-57.
BenchHelp ==
    /\ bench.pc = "help"
    /\ bench' = IF bench.HELP THEN Exit(bench, 0)
                ELSE [bench EXCEPT !.pc = "validate"]

\* Lines 60-68.
BenchValidate ==
    /\ bench.pc = "validate"
    /\ bench' = IF ~IsNumber(bench.DURATION) \/ Value(bench.DURATION) < 1
                THEN Exit(bench, 1)
                ELSE IF bench.MODE \notin {"wasm", "server"}
                     THEN Exit(bench, 1)
                     ELSE [bench EXCEPT !.pc = "services"]

\* Lines 77-87: both curl probes.
BenchServices ==
    /\ bench.pc = "services"
    /\ bench' = IF ~bench.frontend \/ ~bench.backend THEN Exit(bench, 1)
                ELSE [bench EXCEPT !.pc = "run"]

\* Lines 123-237: the collection loop, the statistics, cat > "$OUTPUT_FILE".
BenchRun ==
    /\ bench.pc = "run"
    /\ bench' = [Exit(bench, 0) EXCEPT !.ran = TRUE,
                                       !.written = bench.OUTPUT_FILE]

\* ------------------------------------- run_bench.sh, lines 171-180
MaxSamples == 22   \* longest list of samples
ShortLen == 4      \* longest list of samples in arbitrary order
Samples == {30, 50, 149}

RECURSIVE insert(_, _)
insert(x, s) ==
    IF s = <<>> THEN <<x>>
    ELSE IF x <= Head(s) THEN <<x>> \o s
         ELSE <<Head(s)>> \o insert(x, Tail(s))

\* sort -n
RECURSIVE sort(_)
sort(s) == IF s = <<>> THEN <<>> ELSE insert(Head(s), sort(Tail(s)))

\* P95_INDEX rounded up instead of down.
P95_INDEXCeil(count) == (count * 95 + 99) \div 100

\* Lines 175-176.
MEDIAN_INDEX(count) == count \div 2
P95_INDEX(count) == (count * 95) \div 100

\* ${SORTED_LATENCIES[$i]}: bash arrays count from 0, an index past the end
\* expands to nothing.
At(s, i) == IF i + 1 \in DOMAIN s THEN s[i + 1] ELSE NoTs

\* The lists the collection loop (135-163) may have built: any short list,
\* and longer ones in descending order.
Collected ==
    (SeqsUpTo(Samples, ShortLen) \ {<<>>})
     \cup {[i \in 1..k |-> 150 - i] : k \in 1..MaxSamples}

StatsStart(l) ==
    [pc |-> "collected", LATENCIES |-> l, SORTED_LATENCIES |-> <<>>,
     LATENCY_COUNT |-> 0, MEDIAN_INDEX |-> 0, P95_INDEX |-> 0,
     MEDIAN_LATENCY |-> NoTs, P95_LATENCY |-> NoTs]

\* Lines 171-180.
CalculateStatistics ==
    /\ stats.pc = "collected"
    /\ LET sorted == sort(stats.LATENCIES)
           count == Len(sorted)
       IN stats' = [stats EXCEPT
                       !.pc = "calculated",
                       !.SORTED_LATENCIES = sorted,
                       !.LATENCY_COUNT = count,
                       !.MEDIAN_INDEX = MEDIAN_INDEX(count),
                       !.P95_INDEX = P95_INDEX(count),
                       !.MEDIAN_LATENCY = At(sorted, MEDIAN_INDEX(count)),
                       !.P95_LATENCY = At(sorted, P95_INDEX(count))]

\* ------------------------------------------------------------- start.sh
StartArgs == 3     \* words on the command line of start.sh

StartWords ==
    {<<"--mode=", "wasm">>, <<"--mode=", "server">>, <<"--mode=", "gpu">>,
     <<"--ngrok", "">>, <<"--build", "">>, <<"--help", "">>, <<"-h", "">>,
     <<"--fast", "">>}

\* The default values of start.sh, and what the machine has installed.
StartStart(args, docker, compose) ==
    [pc |-> "parse", args |-> args, MODE |-> "wasm", USE_NGROK |-> FALSE,
     BUILD |-> FALSE, HELP |-> FALSE, unknown |-> FALSE, code |-> NoTs,
     up |-> "", docker |-> docker, compose |-> compose]

\* One pass of the case statement over the word arg.  unknown records that
\* the last branch ("Unknown argument") was taken.
StartCase(st, arg) ==
    CASE arg[1] = "--mode=" -> [st EXCEPT !.MODE = arg[2]]
      [] arg[1] = "--ngrok" -> [st EXCEPT !.USE_NGROK = TRUE]
      [] arg[1] = "--build" -> [st EXCEPT !.BUILD = TRUE]
      [] arg[1] \in {"--help", "-h"} -> [st EXCEPT !.HELP = TRUE]
      [] OTHER -> [st EXCEPT !.HELP = TRUE, !.unknown = TRUE]

RECURSIVE StartParse(_, _)
StartParse(st, args) ==
    IF args = <<>> THEN st
    ELSE StartParse(StartCase(st, Head(args)), Tail(args))

\* for arg in "$@" ... done
StartArguments ==
    /\ start.pc = "parse"
    /\ start' = [StartParse(start, start.args) EXCEPT !.pc = "help"]

\* if [ "$HELP" = true ] ... exit 0
StartHelp ==
    /\ start.pc = "help"
    /\ start' = IF start.HELP THEN Exit(start, 0)
                ELSE [start EXCEPT !.pc = "validate"]

\* The validation of the mode left out.
StartValidateSkipped ==
    /\ start.pc = "validate"
    /\ start' = [start EXCEPT !.pc = "docker"]

\* Validate mode: if [ "$MODE" != "wasm" ] && [ "$MODE" != "server" ]
StartValidate ==
    /\ start.pc = "validate"
    /\ start' = IF start.MODE \notin {"wasm", "server"} THEN Exit(start, 1)
                ELSE [start EXCEPT !.pc = "docker"]

\* command -v docker, command -v docker-compose
StartDocker ==
    /\ start.pc = "docker"
    /\ start' = IF ~start.docker THEN Exit(start, 1)
                ELSE IF ~start.compose THEN Exit(start, 1)
                     ELSE [start EXCEPT !.pc = "compose"]

\* docker-compose up [--build] -d, then the check of docker-compose ps:
\* the services came up or not.
StartServices ==
    /\ start.pc = "compose"
    /\ \E healthy \in BOOLEAN :
          start' = [Exit(start, IF healthy THEN 0 ELSE 1) EXCEPT
                       !.up = IF start.BUILD THEN "up --build -d"
                              ELSE "up -d"]

\* ---------------------------------------------------------- initial state
\* Nothing offered to the queue, no script started.
NoQueue ==
    /\ queue = <<>>
    /\ dropped_frames = 0
    /\ offers = <<>>
    /\ raised = FALSE
NoBench == bench = BenchStart(<<>>, TRUE, TRUE)
NoStart == start = StartStart(<<>>, TRUE, TRUE)
NoStats == stats = StatsStart(<<30>>)

Aside ==
    /\ before = <<>>
    /\ NoQueue
    /\ NoBench
    /\ NoStart
    /\ NoStats

\* The component after its first render.
Mount ==
    /\ liveDetection = FALSE
    /\ frameCounter = 0
    /\ SSR = FALSE
    /\ modelName = 0
    /\ facingMode = "environment"
    /\ networkLatency = 0
    /\ serverLatency = 0
    /\ inferenceTime = 0
    /\ overlay = Blank
    /\ loops = [l \in Loop |-> Idle]
    /\ pending = {}
    /\ now = 0
    /\ backendDown = FALSE
    /\ rendered = NoTs

Init ==
    /\ Mount
    /\ Aside

\* One iteration of the while loop of runLiveDetection up to its first
\* await: capture(), then sendFrameToServer up to the fetch.
Iterate(l, model) ==
    /\ overlay' = capture
    /\ pending' = pending \cup {Payload("live", l, model)}
    /\ frameCounter' = frameCounter + 1
    /\ loops' = [loops EXCEPT ![l] = [pc |-> "infer", model |-> model]]

\* A Live Detection button that calls runLiveDetection without the test of
\* the flag in the handler and in the function.
ClickLiveDetectionRestarts(cap) ==
    /\ ~SSR
    /\ FreeLoops # {}
    /\ frameCounter < cap
    /\ liveDetection' = TRUE
    /\ Iterate(FreeLoop, modelName)
    /\ UNCHANGED <<SSR, modelName, facingMode, networkLatency, serverLatency,
                   inferenceTime, now, backendDown, rendered>>

\* Live Detection button (lines 292-299) and runLiveDetection (198-208).
ClickLiveDetection(cap) ==
    /\ ~SSR
    /\ IF liveDetection
       THEN /\ liveDetection' = FALSE
            /\ pending' = Stop(pending)
            /\ UNCHANGED <<frameCounter, overlay, loops>>
       ELSE /\ FreeLoops # {}
            /\ frameCounter < cap
            /\ liveDetection' = TRUE
            /\ Iterate(FreeLoop, modelName)
    /\ UNCHANGED <<SSR, modelName, facingMode, networkLatency, serverLatency,
                   inferenceTime, now, backendDown, rendered>>

\* The continuation of the loop with a while (true): the flag is not read.
AnimationFrameIgnoresFlag(l, cap) ==
    /\ loops[l].pc = "raf"
    /\ frameCounter < cap
    /\ IF SSR
       THEN /\ loops' = [loops EXCEPT ![l].pc = "crashed"]
            /\ UNCHANGED <<overlay, pending, frameCounter>>
       ELSE Iterate(l, loops[l].model)
    /\ UNCHANGED <<liveDetection, SSR, modelName, facingMode, networkLatency,
                   serverLatency, inferenceTime, now, backendDown, rendered>>

\* The continuation of runLiveDetection when an animation frame fires
\* (lines 210-213, 204-208): the while test, then the next iteration.
AnimationFrame(l, cap) ==
    /\ loops[l].pc = "raf"
    /\ IF liveDetection
       THEN /\ frameCounter < cap
            /\ IF SSR
               THEN /\ loops' = [loops EXCEPT ![l].pc = "crashed"]
                    /\ UNCHANGED <<overlay, pending, frameCounter>>
               ELSE Iterate(l, loops[l].model)
       ELSE /\ loops' = [loops EXCEPT ![l] = Idle]
            /\ UNCHANGED <<overlay, pending, frameCounter>>
    /\ UNCHANGED <<liveDetection, SSR, modelName, facingMode, networkLatency,
                   serverLatency, inferenceTime, now, backendDown, rendered>>

\* The fetch of a live-loop request settles: the rest of sendFrameToServer
\* (126-146), runServerInference (193-195), then runLiveDetection up to
\* its await of the animation frame (209-212).
LiveResponse(r, out, recv, inf) ==
    /\ r \in pending
    /\ r.kind = "live"
    /\ ~r.lost
    /\ backendDown => out = "neterr"
    /\ LET result == sendFrameToServer(r, out, recv, inf)
           lat == LatencyState(result,
                      <<networkLatency, serverLatency, inferenceTime>>)
           drew == Draws(result) /\ ~r.detached
       IN /\ networkLatency' = lat[1]
          /\ serverLatency' = lat[2]
          /\ inferenceTime' = lat[3]
          /\ overlay' = IF drew THEN drawDetections(result.capture_ts)
                        ELSE overlay
          /\ rendered' = IF drew THEN result.capture_ts ELSE rendered
          /\ loops' = [loops EXCEPT ![r.owner].pc =
                          IF result.tag = "throw" THEN "crashed" ELSE "raf"]
    /\ pending' = pending \ {r}
    /\ UNCHANGED <<liveDetection, frameCounter, SSR, modelName, facingMode,
                   now, backendDown>>

\* reset(): clear the overlay, clear the flag.
reset == Blank

\* Capture Photo (283-287) and processImage (216-229) up to the fetch.
ClickCapturePhoto(cap) ==
    /\ ~SSR
    /\ frameCounter < cap
    /\ liveDetection' = FALSE
    /\ overlay' = capture
    /\ pending' = Stop(pending)
                    \cup {Payload("photo", 0, modelName)}
    /\ frameCounter' = frameCounter + 1
    /\ UNCHANGED <<SSR, modelName, facingMode, networkLatency, serverLatency,
                   inferenceTime, loops, now, backendDown, rendered>>

\* The fetch of a Capture Photo request settles: the rest of
\* sendFrameToServer, runServerInference on the copy, then line 230, which
\* paints the copy (the boxes alone, or the captured frame when nothing was
\* drawn on it) over the overlay.
PhotoResponse(r, out, recv, inf) ==
    /\ r \in pending
    /\ r.kind = "photo"
    /\ ~r.lost
    /\ backendDown => out = "neterr"
    /\ LET result == sendFrameToServer(r, out, recv, inf)
           lat == LatencyState(result,
                      <<networkLatency, serverLatency, inferenceTime>>)
           drew == Draws(result) /\ ~r.detached
       IN /\ networkLatency' = lat[1]
          /\ serverLatency' = lat[2]
          /\ inferenceTime' = lat[3]
          /\ overlay' = IF r.detached \/ result.tag = "throw" THEN overlay
                        ELSE IF Draws(result)
                             THEN [overlay EXCEPT !.det = result.capture_ts]
                             ELSE capture
          /\ rendered' = IF drew THEN result.capture_ts ELSE rendered
    /\ pending' = pending \ {r}
    /\ UNCHANGED <<liveDetection, frameCounter, SSR, modelName, facingMode,
                   loops, now, backendDown>>

\* Reset button (line 330).
ClickReset ==
    /\ ~SSR
    /\ overlay' = reset
    /\ liveDetection' = FALSE
    /\ pending' = Stop(pending)
    /\ UNCHANGED <<frameCounter, SSR, modelName, facingMode, networkLatency,
                   serverLatency, inferenceTime, loops, now, backendDown,
                   rendered>>

\* Switch Camera button (311-315).
ClickSwitchCamera ==
    /\ ~SSR
    /\ overlay' = reset
    /\ liveDetection' = FALSE
    /\ facingMode' = IF facingMode = "user" THEN "environment" ELSE "user"
    /\ pending' = Stop(pending)
    /\ UNCHANGED <<frameCounter, SSR, modelName, networkLatency,
                   serverLatency, inferenceTime, loops, now, backendDown,
                   rendered>>

\* props.changeCurrentModelResolution(): the parent selects the next model.
changeCurrentModelResolution(m) == (m + 1) % NumModels

\* Change Model button (320-324).
ClickChangeModel ==
    /\ ~SSR
    /\ overlay' = reset
    /\ liveDetection' = FALSE
    /\ modelName' = changeCurrentModelResolution(modelName)
    /\ pending' = Stop(pending)
    /\ UNCHANGED <<frameCounter, SSR, facingMode, networkLatency,
                   serverLatency, inferenceTime, loops, now, backendDown,
                   rendered>>

\* handleVisibilityChange without the reset of the flag.
handleVisibilityChangeKeepsFlag(hidden, flag) == flag

\* The flag after handleVisibilityChange ran with document.hidden = hidden.
handleVisibilityChange(hidden, flag) == IF hidden THEN FALSE ELSE flag

\* visibilitychange (57-63).  Hiding the tab renders "Loading..." instead of
\* the webcam and the canvas: contexts held by requests in flight now belong
\* to an unmounted canvas, and the canvas mounted on return is blank.
VisibilityChange ==
    /\ SSR' = ~SSR
    /\ liveDetection' = handleVisibilityChange(SSR', liveDetection)
    /\ IF SSR'
       THEN /\ pending' = {[r EXCEPT !.detached = TRUE, !.stopped = TRUE] :
                              r \in pending}
            /\ overlay' = Blank
       ELSE UNCHANGED <<pending, overlay>>
    /\ UNCHANGED <<frameCounter, modelName, facingMode, networkLatency,
                   serverLatency, inferenceTime, loops, now, backendDown,
                   rendered>>

\* Date.now() advances.
Tick(T) ==
    /\ \E t \in T : t > now /\ now' = t
    /\ UNCHANGED <<liveDetection, frameCounter, SSR, modelName, facingMode,
                   networkLatency, serverLatency, inferenceTime, overlay,
                   loops, pending, backendDown, rendered>>

\* The server becomes unreachable and stays so.
BackendFails ==
    /\ ~backendDown
    /\ backendDown' = TRUE
    /\ UNCHANGED <<liveDetection, frameCounter, SSR, modelName, facingMode,
                   networkLatency, serverLatency, inferenceTime, overlay,
                   loops, pending, now, rendered>>

\* The server accepts a request and never answers it.
RequestLost(r) ==
    /\ r \in pending
    /\ ~r.lost
    /\ pending' = (pending \ {r}) \cup {[r EXCEPT !.lost = TRUE]}
    /\ UNCHANGED <<liveDetection, frameCounter, SSR, modelName, facingMode,
                   networkLatency, serverLatency, inferenceTime, overlay,
                   loops, now, backendDown, rendered>>

\* Timestamps of a server that answers within the tick of the capture.
Stamps(r) == {<<r.ts, r.ts>>}

User(cap) ==
    \/ ClickLiveDetection(cap)
    \/ ClickCapturePhoto(cap)
    \/ ClickReset
    \/ ClickSwitchCamera
    \/ ClickChangeModel
    \/ VisibilityChange

Next ==
    \/ /\ User(MaxFrames)
       /\ Apart
    \/ /\ \E l \in Loop : AnimationFrame(l, MaxFrames)
       /\ Apart
    \/ /\ \E r \in pending, out \in Outcomes : \E st \in Stamps(r) :
             LiveResponse(r, out, st[1], st[2])
       /\ Apart
    \/ /\ \E r \in pending, out \in Outcomes : \E st \in Stamps(r) :
             PhotoResponse(r, out, st[1], st[2])
       /\ Apart
    \/ /\ Tick(0..MaxTime)
       /\ Apart

Spec == Init /\ [][Next]_vars

\* ------------------------------------------------- other specifications
\* The server may become unreachable at any moment and then stays so.
NextFatal ==
    \/ Next
    \/ /\ BackendFails
       /\ Apart

SpecFatal == Init /\ [][NextFatal]_vars

\* Some requests are never answered; whatever the event loop has ready runs.
NextFair ==
    \/ Next
    \/ /\ \E r \in pending : RequestLost(r)
       /\ Apart

Settle ==
    /\ \E r \in pending, out \in Outcomes : \E st \in Stamps(r) :
          \/ LiveResponse(r, out, st[1], st[2])
          \/ PhotoResponse(r, out, st[1], st[2])
    /\ Apart

FairSpec ==
    /\ Init
    /\ [][NextFair]_vars
    /\ WF_vars(Settle)
    /\ WF_vars((\E l \in Loop : AnimationFrame(l, MaxFrames)) /\ Apart)

\* Clicks and responses alone, with room for more requests than N.
NextBacklog ==
    \/ /\ ClickLiveDetection(BacklogFrames)
       /\ Apart
    \/ /\ ClickCapturePhoto(BacklogFrames)
       /\ Apart
    \/ /\ \E l \in Loop : AnimationFrame(l, BacklogFrames)
       /\ Apart
    \/ /\ \E r \in pending, out \in Outcomes : \E st \in Stamps(r) :
             LiveResponse(r, out, st[1], st[2])
       /\ Apart
    \/ /\ \E r \in pending, out \in Outcomes : \E st \in Stamps(r) :
             PhotoResponse(r, out, st[1], st[2])
       /\ Apart

SpecBacklog == Init /\ [][NextBacklog]_vars

\* Millisecond timestamps: the clocks of the browser and of the server.
LatTimes == {1000, 1050, 1090, 1120}
LatStamps == LatTimes \X LatTimes

InitLat ==
    /\ liveDetection = FALSE
    /\ frameCounter = 0
    /\ SSR = FALSE
    /\ modelName = 0
    /\ facingMode = "environment"
    /\ networkLatency = 0
    /\ serverLatency = 0
    /\ inferenceTime = 0
    /\ overlay = Blank
    /\ loops = [l \in Loop |-> Idle]
    /\ pending = {}
    /\ now \in LatTimes
    /\ backendDown = FALSE
    /\ rendered = NoTs
    /\ Aside

NextLat ==
    \/ /\ ClickLiveDetection(LatFrames)
       /\ Apart
    \/ /\ ClickCapturePhoto(LatFrames)
       /\ Apart
    \/ /\ \E l \in Loop : AnimationFrame(l, LatFrames)
       /\ Apart
    \/ /\ \E r \in pending, out \in Bodies, st \in LatStamps :
             LiveResponse(r, out, st[1], st[2])
       /\ Apart
    \/ /\ \E r \in pending, out \in Bodies, st \in LatStamps :
             PhotoResponse(r, out, st[1], st[2])
       /\ Apart
    \/ /\ \E r \in pending, out \in Outcomes \ Bodies :
             LiveResponse(r, out, r.ts, r.ts)
       /\ Apart
    \/ /\ \E r \in pending, out \in Outcomes \ Bodies :
             PhotoResponse(r, out, r.ts, r.ts)
       /\ Apart
    \/ /\ Tick(LatTimes)
       /\ Apart

SpecLat == InitLat /\ [][NextLat]_vars

\* The pipeline with a record, for every request in flight, of what the
\* overlay showed before the frame of that request was captured.
Snapshot ==
    before' = [id \in {r.id : r \in pending'} |->
                  IF id \in DOMAIN before THEN before[id] ELSE overlay]

NextOverlay ==
    \/ /\ User(MaxFrames)
       /\ Snapshot
       /\ UNCHANGED others
    \/ /\ \E l \in Loop : AnimationFrame(l, MaxFrames)
       /\ Snapshot
       /\ UNCHANGED others
    \/ /\ \E r \in pending, out \in Outcomes : \E st \in Stamps(r) :
             LiveResponse(r, out, st[1], st[2])
       /\ Snapshot
       /\ UNCHANGED others
    \/ /\ \E r \in pending, out \in Outcomes : \E st \in Stamps(r) :
             PhotoResponse(r, out, st[1], st[2])
       /\ Snapshot
       /\ UNCHANGED others
    \/ /\ Tick(0..MaxTime)
       /\ Snapshot
       /\ UNCHANGED others

SpecOverlay == Init /\ [][NextOverlay]_vars

\* The pipeline with room for a third request: a loop started before a
\* change of model, a loop started after it, and the next frame of the
\* first.
StaleFrames == 3

NextStale ==
    \/ /\ User(StaleFrames)
       /\ Apart
    \/ /\ \E l \in Loop : AnimationFrame(l, StaleFrames)
       /\ Apart
    \/ /\ \E r \in pending, out \in Outcomes : \E st \in Stamps(r) :
             LiveResponse(r, out, st[1], st[2])
       /\ Apart
    \/ /\ \E r \in pending, out \in Outcomes : \E st \in Stamps(r) :
             PhotoResponse(r, out, st[1], st[2])
       /\ Apart

SpecStale == Init /\ [][NextStale]_vars

\* The buttons, the visibility handler and the continuations of the loops,
\* without the clock.
NextFlag ==
    \/ /\ User(MaxFrames)
       /\ Apart
    \/ /\ \E l \in Loop : AnimationFrame(l, MaxFrames)
       /\ Apart
    \/ /\ \E r \in pending, out \in Outcomes : \E st \in Stamps(r) :
             LiveResponse(r, out, st[1], st[2])
       /\ Apart
    \/ /\ \E r \in pending, out \in Outcomes : \E st \in Stamps(r) :
             PhotoResponse(r, out, st[1], st[2])
       /\ Apart

SpecFlag == Init /\ [][NextFlag]_vars

\* The same steps where every fetch settles and every animation frame
\* requested fires.
SpecStop ==
    /\ Init
    /\ [][NextFlag]_vars
    /\ WF_vars(Settle)
    /\ WF_vars((\E l \in Loop : AnimationFrame(l, MaxFrames)) /\ Apart)

\* The frame queue of report.md on its own: a caller offering frames.
NextQueue ==
    \/ /\ Offer
       /\ UNCHANGED <<pipe, before, bench, start, stats>>

SpecQueue == Init /\ [][NextQueue]_vars

\* One run of run_bench.sh for every short command line.
InitBench ==
    /\ Mount
    /\ before = <<>>
    /\ NoQueue
    /\ bench \in {BenchStart(args, f, b) :
                      args \in SeqsUpTo(BenchWords, MaxArgs),
                      f \in BOOLEAN, b \in BOOLEAN}
    /\ NoStart
    /\ NoStats

NextBench ==
    \/ /\ BenchArguments
       /\ UNCHANGED <<pipe, before, queue, dropped_frames, offers, raised,
                      start, stats>>
    \/ /\ BenchHelp
       /\ UNCHANGED <<pipe, before, queue, dropped_frames, offers, raised,
                      start, stats>>
    \/ /\ BenchValidate
       /\ UNCHANGED <<pipe, before, queue, dropped_frames, offers, raised,
                      start, stats>>
    \/ /\ BenchServices
       /\ UNCHANGED <<pipe, before, queue, dropped_frames, offers, raised,
                      start, stats>>
    \/ /\ BenchRun
       /\ UNCHANGED <<pipe, before, queue, dropped_frames, offers, raised,
                      start, stats>>

SpecBench == InitBench /\ [][NextBench]_vars

\* The statistics of run_bench.sh for every list of samples collected.
InitStats ==
    /\ Mount
    /\ before = <<>>
    /\ NoQueue
    /\ NoBench
    /\ NoStart
    /\ stats \in {StatsStart(l) : l \in Collected}

NextStats ==
    \/ /\ CalculateStatistics
       /\ UNCHANGED <<pipe, before, queue, dropped_frames, offers, raised,
                      bench, start>>

SpecStats == InitStats /\ [][NextStats]_vars

\* One run of start.sh for every short command line and installation.
InitStart ==
    /\ Mount
    /\ before = <<>>
    /\ NoQueue
    /\ NoBench
    /\ start \in {StartStart(args, d, c) :
                      args \in SeqsUpTo(StartWords, StartArgs),
                      d \in BOOLEAN, c \in BOOLEAN}
    /\ NoStats

NextStart ==
    \/ /\ StartArguments
       /\ UNCHANGED <<pipe, before, queue, dropped_frames, offers, raised,
                      bench, stats>>
    \/ /\ StartHelp
       /\ UNCHANGED <<pipe, before, queue, dropped_frames, offers, raised,
                      bench, stats>>
    \/ /\ StartValidate
       /\ UNCHANGED <<pipe, before, queue, dropped_frames, offers, raised,
                      bench, stats>>
    \/ /\ StartDocker
       /\ UNCHANGED <<pipe, before, queue, dropped_frames, offers, raised,
                      bench, stats>>
    \/ /\ StartServices
       /\ UNCHANGED <<pipe, before, queue, dropped_frames, offers, raised,
                      bench, stats>>

SpecStart == InitStart /\ [][NextStart]_vars

\* ----------------------------------------------------------------- claims
\* The request r settles in this step.
Settles(r) == \A q \in pending' : q.id # r.id

\* The detections of r's result are painted on the overlay in this step.
DrawnOnOverlay(r) == overlay' # overlay /\ overlay'.det = r.ts

\* A live loop captures a frame and sends it in this step.
LiveCapture ==
    /\ frameCounter' = frameCounter + 1
    /\ \E r \in pending' : r.id = frameCounter /\ r.kind = "live"

\* C1: once a result with capture_ts = t has been drawn on the overlay, no
\* result with an older capture_ts is drawn afterwards.
StaleResultSuppressed == [][rendered' >= rendered]_vars

\* C2: at no time are two runLiveDetection loops both going to capture and
\* send further frames.
SingleLoop == liveDetection => Cardinality(Running) <= 1

\* C3: the result of a request that was in flight when the pipeline was
\* stopped is never drawn on the overlay.
CancelledResultDiscarded ==
    [][\A r \in pending :
          (r.stopped /\ Settles(r)) => ~DrawnOnOverlay(r)]_vars

\* C4: a request of the live loop that fails or comes back without
\* detections draws nothing, raises nothing out of sendFrameToServer, and
\* leaves its loop waiting for the next animation frame, at which the loop
\* captures and sends the next frame if live detection is still enabled.
PerFrameErrorAbsorbed ==
    /\ [](\A l \in Loop : loops[l].pc # "crashed")
    /\ [][\A r \in pending : \A out \in Outcomes \ {"ok"} :
             \A st \in Stamps(r) :
                (Settles(r) /\ LiveResponse(r, out, st[1], st[2])) =>
                    /\ overlay' = overlay
                    /\ rendered' = rendered
                    /\ loops'[r.owner].pc = "raf"]_vars
    /\ [][\A l \in Loop :
             (/\ liveDetection
              /\ loops[l].pc = "raf"
              /\ AnimationFrame(l, MaxFrames)) =>
                 /\ loops'[l].pc = "infer"
                 /\ \E r \in pending' : r.owner = l /\ r.id = frameCounter]_vars

\* C4 witness: the only loop has had its request settled without anything
\* being drawn over the captured frame, and is still running.
ErrorAbsorbedWitness ==
    \E l \in Loop :
        /\ Running = {l}
        /\ loops[l].pc = "raf"
        /\ liveDetection
        /\ pending = {}
        /\ overlay = capture

\* C5: with the server unreachable, the failure of a live-loop request
\* switches live detection off, and no loop sends a further frame after
\* its request failed.
FatalBackendStops ==
    [][/\ \A r \in pending :
             (backendDown /\ LiveResponse(r, "neterr", r.ts, r.ts))
                 => ~liveDetection'
       /\ \A l \in Loop :
             (backendDown /\ loops[l].pc = "raf") => loops'[l].pc # "infer"]_vars

\* Loop l awaits a request the server never answers.
Blocked(l) == \E r \in pending : r.kind = "live" /\ r.owner = l /\ r.lost

\* C6: a loop that waits for a request the server never answers eventually
\* stops waiting for it, as long as live detection stays enabled.
SlowResponseDoesNotBlock ==
    \A l \in Loop :
        (Blocked(l) /\ liveDetection) ~> (~Blocked(l) \/ ~liveDetection)

\* C7: at most N captured frames are unresolved at any time.
BacklogBounded == Cardinality(pending) <= N

\* C8: a live loop captures only while liveDetection is true and the tab is
\* visible; hiding the tab clears the flag, and only a Live Detection click
\* sets it again.
NoCaptureWhilePaused ==
    /\ [][LiveCapture =>
             /\ liveDetection'
             /\ ~SSR
             /\ liveDetection \/ ClickLiveDetection(MaxFrames)]_vars
    /\ [][SSR' => ~liveDetection']_vars
    /\ [][(~liveDetection /\ liveDetection') =>
             ClickLiveDetection(MaxFrames)]_vars

\* C8 witness: the tab is hidden while a loop is suspended.
PausedWitness == SSR /\ Running # {}

\* C9: the model is never switched while an inference request is in flight.
SwitchOnlyBetweenFrames == [][modelName' # modelName => pending = {}]_vars

\* C10: after every response, network latency is recv_ts - capture_ts,
\* server latency is inference_ts - recv_ts and total latency is
\* now - capture_ts; the values for 1000, 1050, 1090, 1120 are 50, 40, 120.
LatencyArithmetic ==
    [][\A r \in pending : \A out \in Bodies : \A st \in LatStamps :
          (/\ Settles(r)
           /\ \/ LiveResponse(r, out, st[1], st[2])
              \/ PhotoResponse(r, out, st[1], st[2])) =>
              /\ networkLatency' = st[1] - r.ts
              /\ serverLatency' = st[2] - st[1]
              /\ inferenceTime' = st[2] - st[1]
              /\ Latencies(ServerResponse(r, out, st[1], st[2]), now)[3]
                    = now - r.ts
              /\ (r.ts = 1000 /\ st = <<1050, 1090>> /\ now = 1120) =>
                    /\ <<networkLatency', serverLatency'>> = <<50, 40>>
                    /\ Latencies(ServerResponse(r, out, st[1], st[2]), now)
                          = <<50, 40, 120>>]_vars

\* C10 witness: the response to a frame captured at 1000, received by the
\* server at 1050 and inferred at 1090, has been processed at 1120.
LatencyWitness ==
    /\ now = 1120
    /\ networkLatency = 50
    /\ serverLatency = 40
    /\ frameCounter > 0
    /\ pending = {}

\* C11: a response whose timestamps give a negative latency is never
\* recorded: the network and server latency of the component are never
\* negative.
NegativeLatencyRejected == networkLatency >= 0 /\ serverLatency >= 0

\* C12: after every add_frame call the queue holds at most N frames.
QueueBound == Len(queue) <= N

\* C12 witness: more frames than the capacity have been offered.
QueueBoundWitness == Len(offers) = N + 1 /\ raised

\* C13: after N+1 different frames were offered in order to an empty queue,
\* the first one has been evicted and the queue holds the other N in order.
DropOldest ==
    (/\ Len(offers) = N + 1
     /\ \A i, j \in DOMAIN offers : i # j => offers[i] # offers[j]) =>
        /\ queue = Tail(offers)
        /\ dropped_frames = 1

\* C14: every frame offered is either still queued or counted in
\* dropped_frames (nothing takes frames out of the queue).
DropAccounting == Len(offers) = Len(queue) + dropped_frames

\* C15: every request sent carries a frame_id that no earlier request
\* carried, and the ids are issued in strictly increasing counter order:
\* a new request takes the value of the counter, the counter then moves
\* past it and never goes back, and no two requests in flight share an id.
FrameIdUnique ==
    [][/\ frameCounter' >= frameCounter
       /\ \A r \in pending' :
             /\ r.id < frameCounter'
             /\ (\A q \in pending : q.id # r.id) =>
                   /\ r.id = frameCounter
                   /\ frameCounter' = frameCounter + 1
             /\ \A q \in pending' : q.id = r.id => q = r]_vars

\* C15 witness: two live loops each have a request in flight.
FrameIdWitness ==
    \E r, q \in pending :
        r.kind = "live" /\ q.kind = "live" /\ r.owner # q.owner

\* C16: run_bench.sh invoked as documented, with the words --duration 30
\* --mode server and both services reachable, runs the benchmark with
\* duration 30 in server mode and writes the metrics file.
DocumentedInvocationRuns ==
    (/\ bench.args = <<<<"--duration", "">>, <<"30", "">>,
                       <<"--mode", "">>, <<"server", "">>>>
     /\ bench.frontend
     /\ bench.backend
     /\ bench.pc = "exit") =>
        /\ bench.ran
        /\ bench.DURATION = "30"
        /\ bench.MODE = "server"
        /\ bench.written = "metrics.json"
        /\ bench.code = 0

\* C17: for every non-empty list of samples, the statistics sort the
\* samples ascending, take the median at index floor(count/2) and p95 at
\* index floor(count*0.95), and both indices are smaller than count.
NearestRank ==
    stats.pc = "calculated" =>
        LET sorted == stats.SORTED_LATENCIES
            count == stats.LATENCY_COUNT
        IN /\ count = Len(stats.LATENCIES)
           /\ count >= 1
           /\ \A i \in 1..(count - 1) : sorted[i] <= sorted[i + 1]
           /\ \A x \in Samples \cup (150 - MaxSamples - 1)..150 :
                 Cardinality({i \in 1..count : sorted[i] = x})
                    = Cardinality({i \in 1..count : stats.LATENCIES[i] = x})
           /\ 2 * stats.MEDIAN_INDEX <= count
           /\ 2 * (stats.MEDIAN_INDEX + 1) > count
           /\ 100 * stats.P95_INDEX <= 95 * count
           /\ 100 * (stats.P95_INDEX + 1) > 95 * count
           /\ stats.MEDIAN_INDEX < count
           /\ stats.P95_INDEX < count
           /\ stats.MEDIAN_LATENCY = sorted[stats.MEDIAN_INDEX + 1]
           /\ stats.P95_LATENCY = sorted[stats.P95_INDEX + 1]

\* C17 witness: the statistics of 21 samples, where p95 is neither the
\* largest sample nor the median.
NearestRankWitness ==
    /\ stats.pc = "calculated"
    /\ stats.LATENCY_COUNT = 21
    /\ stats.P95_INDEX = 19
    /\ stats.MEDIAN_INDEX = 10
    /\ stats.P95_LATENCY = 148
    /\ stats.MEDIAN_LATENCY = 139

\* C18 as stated: services are started only when every argument was
\* recognised, help was not requested, the mode is wasm or server and
\* docker and docker-compose were found; with an invalid mode the script
\* exits with status 1 and no service is started.
StartOnlyWhenValid ==
    /\ start.up # "" =>
          /\ ~start.unknown
          /\ ~start.HELP
          /\ start.MODE \in {"wasm", "server"}
          /\ start.docker
          /\ start.compose
    /\ (start.pc = "exit" /\ start.MODE \notin {"wasm", "server"}) =>
          /\ start.code = 1
          /\ start.up = ""

\* C18 amended: services are started only under the conditions above; with
\* an invalid mode no service is started, and the script exits with status
\* 1 unless help was requested or an argument was not recognised, in which
\* case it prints the help and exits with status 0.
StartOnlyWhenValidOrHelp ==
    /\ start.up # "" =>
          /\ ~start.unknown
          /\ ~start.HELP
          /\ start.MODE \in {"wasm", "server"}
          /\ start.docker
          /\ start.compose
    /\ (start.pc = "exit" /\ start.MODE \notin {"wasm", "server"}) =>
          /\ start.code = (IF start.HELP THEN 0 ELSE 1)
          /\ start.up = ""

\* C18 witness: a run with an invalid mode and no other argument has
\* exited with status 1 on a machine that has docker and docker-compose.
InvalidModeWitness ==
    /\ start.pc = "exit"
    /\ start.args = <<<<"--mode=", "gpu">>>>
    /\ start.docker
    /\ start.compose
    /\ start.code = 1
    /\ start.up = ""

\* C19: a frame whose request fails leaves the overlay exactly as it was
\* before that frame was captured.
OverlayKeptOnFailure ==
    [][\A r \in pending : \A out \in Outcomes \ Bodies :
          (/\ Settles(r)
           /\ \/ LiveResponse(r, out, r.ts, r.ts)
              \/ PhotoResponse(r, out, r.ts, r.ts)) =>
              overlay' = before[r.id]]_vars

\* C20: every request sent carries the model selected at the moment it is
\* sent: no loop goes on sending frames built with an earlier selection.
NoStaleConfiguration ==
    [][\A r \in pending' :
          (\A q \in pending : q.id # r.id) => r.model = modelName']_vars

\* C21: Reset, Capture Photo, Switch Camera, Change Model and hiding the tab
\* each leave liveDetection false; the flag becomes true only through a Live
\* Detection click made while it is false, which starts a loop; a Live
\* Detection click made while it is true clears it and starts no loop.
FlagSetters ==
    [][/\ (\/ ClickReset
           \/ ClickCapturePhoto(MaxFrames)
           \/ ClickSwitchCamera
           \/ ClickChangeModel) => ~liveDetection'
       /\ (VisibilityChange /\ SSR') => ~liveDetection'
       /\ liveDetection' =>
             \/ liveDetection
             \/ /\ ClickLiveDetection(MaxFrames)
                /\ \E l \in Loop :
                      loops[l].pc = "idle" /\ loops'[l].pc = "infer"
       /\ (liveDetection /\ ClickLiveDetection(MaxFrames)) =>
             /\ ~liveDetection'
             /\ loops' = loops
             /\ frameCounter' = frameCounter
             /\ {r.id : r \in pending'} = {r.id : r \in pending}]_vars

\* C21 witness: the flag is false again after a handler ran while a request
\* of the live loop was in flight.
FlagClearedWitness ==
    /\ ~liveDetection
    /\ \E r \in pending : r.kind = "live" /\ r.stopped /\ ~r.detached

\* C22: if live detection is switched off and never switched on again, then
\* every runLiveDetection loop eventually exits, and from then on no loop
\* captures a frame or sends a request.
StoppingTerminates ==
    /\ (<>[](~liveDetection)) => <>[](Running = {})
    /\ [][(Running = {} /\ ~liveDetection /\ ~liveDetection') =>
             /\ Running' = {}
             /\ \A r \in pending' :
                   r.kind = "live" => \E q \in pending : q.id = r.id]_vars

\* C22 witness: the flag is off while a loop awaits its animation frame.
StoppingWitness ==
    /\ ~liveDetection
    /\ \E l \in Loop : loops[l].pc = "raf"

====
